---- MODULE Spec2Model ----
(***************************************************************************)
(* Model of app/processor.py: the schema gate validate_input_message and   *)
(* the enrichment compute_meanreversion_signal.                            *)
(*                                                                         *)
(* A message is a Python dict: a function from keys (strings) to values.   *)
(* A number of a message is [t |-> "int" or "float", v |-> n]: an integer  *)
(* valued int or float n with |n| far below 2^53, so that float() of it and *)
(* the subtraction price - moving_avg are exact in IEEE-754 binary64.  The *)
(* quotient (price - moving_avg) / moving_avg is a binary64 value: the     *)
(* record [num, den, err] stands for the double nearest to num/den, and    *)
(* err is the sign of (that double - num/den), found by long division to   *)
(* MantissaBits bits.  A float with four decimals is [t |-> "float",       *)
(* e4 |-> k]: the double nearest to k / 10^4.                              *)
(***************************************************************************)
EXTENDS Integers, FiniteSets, Sequences, TLC

VARIABLES
  message,    \* the raw message handed to the pipeline
  verdict,    \* what validate_message_schema answered: "pending" before
  pc,         \* received, validated, rejected, enriched, failed
  validated,  \* what validate_input_message returned, if it did
  result,     \* what compute_meanreversion_signal returned, if it did
  error,      \* the exception the pipeline ended with, or "none"
  logged,     \* the log records emitted while this message is processed
  prev        \* the message processed before this one and its result

vars == <<message, verdict, pc, validated, result, error, logged, prev>>

(***************************************************************************)
(* Bounds of the checked input domain.                                     *)
(***************************************************************************)
\* moving_average ranges over -MaxMA .. MaxMA
MaxMA == 240
\* price ranges over moving_average - MaxDelta .. moving_average + MaxDelta
MaxDelta == 8

(***************************************************************************)
(* Program constants.                                                      *)
(***************************************************************************)
\* message.get("price", 100.0)
DefaultPrice == 100
\* message.get("moving_average", 100.0)
DefaultMovingAverage == 100
\* the literals -0.03 and 0.03 are ThresholdNum / ThresholdDen
ThresholdNum == 3
ThresholdDen == 100
\* round(deviation, 4)
NDigits == 4
\* significand width of a Python float (IEEE-754 binary64)
MantissaBits == 53

(***************************************************************************)
(* Python values.                                                          *)
(***************************************************************************)
None == [none |-> TRUE]
Some(v) == [some |-> v]

PyInt(n) == [t |-> "int", v |-> n]
PyFloat(n) == [t |-> "float", v |-> n]
Dec4(k) == [t |-> "float", e4 |-> k]

Abs(x) == IF x < 0 THEN -x ELSE x
Sgn(x) == IF x < 0 THEN -1 ELSE IF x > 0 THEN 1 ELSE 0

RECURSIVE Pow(_, _)
Pow(b, n) == IF n = 0 THEN 1 ELSE b * Pow(b, n - 1)

RECURSIVE BitLength(_)
BitLength(q) == IF q = 0 THEN 0 ELSE 1 + BitLength(q \div 2)

\* dict.get(key, default)
Get(d, key, default) == IF key \in DOMAIN d THEN d[key] ELSE default

\* Mutant: the computed dict alone is returned, the message is not merged in.
MergeResultOnly(a, b) == b

\* Mutant: {**b, **a}, the message's value wins a collision.
MergeInputWins(a, b) ==
  [k \in (DOMAIN a) \cup (DOMAIN b) |-> IF k \in DOMAIN a THEN a[k] ELSE b[k]]

\* {**a, **b}: the keys of both, b's value on a collision
Merge(a, b) ==
  [k \in (DOMAIN a) \cup (DOMAIN b) |-> IF k \in DOMAIN b THEN b[k] ELSE a[k]]

\* float(x) of an int or a float x: the same number, as a float
float(x) == x.v

(***************************************************************************)
(* IEEE-754 binary64 division of two exactly represented integers.         *)
(***************************************************************************)
\* Long division of r / b, r < b, continued until the quotient has
\* MantissaBits significant bits (bits of them are already known, the last
\* one odd or not) or the remainder is 0.
RECURSIVE LongDivide(_, _, _, _)
LongDivide(r, b, bits, odd) ==
  IF bits = MantissaBits \/ r = 0
    THEN [r |-> r, odd |-> odd]
    ELSE LET bit == IF 2 * r >= b THEN 1 ELSE 0
         IN LongDivide(2 * r - bit * b, b,
                       IF bits = 0 THEN bit ELSE bits + 1, bit = 1)

\* Round to nearest, ties to even: the sign of (rounded - exact) for the
\* magnitude |n| / |d|.
RoundingError(n, d) ==
  LET a == Abs(n)
      b == Abs(d)
      q0 == a \div b
      rest == LongDivide(a % b, b, BitLength(q0), q0 % 2 = 1)
  IN IF rest.r = 0 THEN 0
     ELSE IF 2 * rest.r < b THEN -1
     ELSE IF 2 * rest.r > b THEN 1
     ELSE IF rest.odd THEN 1 ELSE -1

\* n / d for floats n and d, d # 0
FloatDiv(n, d) ==
  [num |-> n, den |-> d, err |-> Sgn(n) * Sgn(d) * RoundingError(n, d)]

\* The float literal ThresholdNum / ThresholdDen (0.03), negated when neg.
Literal(neg) ==
  FloatDiv(IF neg THEN -ThresholdNum ELSE ThresholdNum, ThresholdDen)

\* x < y for two doubles, each the nearest double to a quotient of small
\* integers: two different quotients are further apart than an ulp, so their
\* doubles are ordered as they are; equal quotients give the same double.
FloatLess(x, y) ==
  LET l == x.num * y.den * Sgn(x.den) * Sgn(y.den)
      r == y.num * x.den * Sgn(x.den) * Sgn(y.den)
  IN l < r

\* Mutant: a tie of the double goes away from zero instead of to even.
round_half_up(x, ndigits) ==
  LET s == Sgn(x.num) * Sgn(x.den)
      a == Abs(x.num) * Pow(10, ndigits)
      b == Abs(x.den)
      fl == a \div b
      rem == a % b
      magErr == x.err * s
      k == IF 2 * rem < b THEN fl
           ELSE IF 2 * rem > b THEN fl + 1
           ELSE IF magErr < 0 THEN fl
           ELSE fl + 1
  IN Dec4(s * k)

\* round(x, ndigits): the exact value of the double x, rounded half to even
\* to ndigits decimals.  The double lies off num/den on the side of err, so
\* a quotient halfway between two decimals is a tie only when err = 0.
round(x, ndigits) ==
  LET s == Sgn(x.num) * Sgn(x.den)
      a == Abs(x.num) * Pow(10, ndigits)
      b == Abs(x.den)
      fl == a \div b
      rem == a % b
      magErr == x.err * s
      k == IF 2 * rem < b THEN fl
           ELSE IF 2 * rem > b THEN fl + 1
           ELSE IF magErr > 0 THEN fl + 1
           ELSE IF magErr < 0 THEN fl
           ELSE IF fl % 2 = 0 THEN fl ELSE fl + 1
  IN Dec4(s * k)

(***************************************************************************)
(* compute_meanreversion_signal, line by line.                             *)
(***************************************************************************)
symbol(m) == Get(m, "symbol", "UNKNOWN")

\* Mutant: a missing price is read as 0.
price_default_zero(m) == float(Get(m, "price", PyFloat(0)))

price(m) == float(Get(m, "price", PyFloat(DefaultPrice)))

moving_avg(m) == float(Get(m, "moving_average", PyFloat(DefaultMovingAverage)))

\* (price - moving_avg) / moving_avg, moving_avg # 0
deviation(m) == FloatDiv(price(m) - moving_avg(m), moving_avg(m))

\* Mutant: the thresholds are inclusive.
signal_inclusive(dev) ==
  IF ~FloatLess(Literal(TRUE), dev) THEN "REVERT_UP"
  ELSE IF ~FloatLess(dev, Literal(FALSE)) THEN "REVERT_DOWN"
  ELSE "NEUTRAL"

\* Mutant: the two REVERT labels are exchanged.
signal_swapped(dev) ==
  IF FloatLess(dev, Literal(TRUE)) THEN "REVERT_DOWN"
  ELSE IF FloatLess(Literal(FALSE), dev) THEN "REVERT_UP"
  ELSE "NEUTRAL"

signal(dev) ==
  IF FloatLess(dev, Literal(TRUE)) THEN "REVERT_UP"
  ELSE IF FloatLess(Literal(FALSE), dev) THEN "REVERT_DOWN"
  ELSE "NEUTRAL"

\* Mutant: a message without a symbol is never given a REVERT signal.
computed_by_symbol(m) ==
  [mean_reversion_deviation |-> round(deviation(m), NDigits),
   mean_reversion_signal |->
     IF symbol(m) = "UNKNOWN" THEN "NEUTRAL" ELSE signal(deviation(m))]

computed(m) ==
  [mean_reversion_deviation |-> round(deviation(m), NDigits),
   mean_reversion_signal |-> signal(deviation(m))]

\* What a call returns or raises.
Returned(v) == [raised |-> "none", value |-> Some(v)]
Raised(e) == [raised |-> e, value |-> None]

\* Mutant: a zero moving average is guarded with a neutral result.
compute_meanreversion_signal_guarded(m) ==
  IF moving_avg(m) = 0
    THEN Returned(Merge(m, [mean_reversion_deviation |-> Dec4(0),
                            mean_reversion_signal |-> "NEUTRAL"]))
    ELSE Returned(Merge(m, computed(m)))

compute_meanreversion_signal(m) ==
  IF moving_avg(m) = 0
    THEN Raised("ZeroDivisionError")
    ELSE Returned(Merge(m, computed(m)))

\* The log records compute_meanreversion_signal emits: level, format and
\* the symbol argument (the info record precedes the division, the debug
\* record follows it; its second argument is the computed dict).
ComputeLog(m) ==
  {<<"info", "Computing mean reversion signal for %s", symbol(m)>>} \cup
  (IF moving_avg(m) = 0
     THEN {}
     ELSE {<<"debug", "Mean reversion result for %s: %s", symbol(m)>>})

(***************************************************************************)
(* validate_input_message: schema_ok is what the collaborator              *)
(* validate_message_schema(message) answers.                               *)
(***************************************************************************)
\* Mutant: the error is logged but not raised.
validate_input_message_noraise(m, schema_ok) == Returned(m)

\* Mutant: the accepted message is returned with its symbol filled in.
validate_input_message_filled(m, schema_ok) ==
  IF ~schema_ok
    THEN Raised("ValueError")
    ELSE Returned(Merge([symbol |-> "UNKNOWN"], m))

validate_input_message(m, schema_ok) ==
  IF ~schema_ok THEN Raised("ValueError") ELSE Returned(m)

\* The log records validate_input_message emits (the error record's
\* argument is the message).
ValidateLog(schema_ok) ==
  {<<"debug", "Validating message schema...">>} \cup
  (IF schema_ok THEN {} ELSE {<<"error", "Invalid message schema: %s">>})

(***************************************************************************)
(* Input messages.                                                         *)
(***************************************************************************)
\* The dict d cut down to the keys in keys.
Restrict(d, keys) == [k \in keys |-> d[k]]

\* A grid of prices around every moving average.
GridMessages ==
  {[symbol |-> "AAPL", price |-> PyFloat(ma + delta), moving_average |-> PyFloat(ma)] :
     ma \in (-MaxMA) .. MaxMA, delta \in (-MaxDelta) .. MaxDelta}

\* Every shape of a message: each key present or absent.
ShapeFull ==
  [symbol : {"AAPL", "MSFT"},
   price : {PyInt(97), PyInt(103), PyFloat(104), PyInt(0)},
   moving_average : {PyInt(100), PyFloat(100), PyInt(0)},
   volume : {PyInt(1000)},
   mean_reversion_deviation : {Dec4(9999)},
   mean_reversion_signal : {"REVERT_UP", "STALE"}]

Keys ==
  {"symbol", "price", "moving_average", "volume",
   "mean_reversion_deviation", "mean_reversion_signal"}

ShapeMessages == {Restrict(d, keys) : d \in ShapeFull, keys \in SUBSET Keys}

Messages == GridMessages \cup ShapeMessages

(***************************************************************************)
(* The validate-then-compute pipeline on one message.                      *)
(***************************************************************************)
Fresh(m) ==
  /\ message = m
  /\ verdict = "pending"
  /\ pc = "received"
  /\ validated = None
  /\ result = None
  /\ error = "none"
  /\ logged = {}

Init ==
  /\ \E m \in Messages : Fresh(m)
  /\ prev = None

Validate(schema_ok) ==
  /\ pc = "received"
  /\ verdict' = IF schema_ok THEN "satisfied" ELSE "not satisfied"
  /\ LET r == validate_input_message(message, schema_ok)
     IN /\ validated' = r.value
        /\ error' = r.raised
        /\ pc' = IF r.raised = "none" THEN "validated" ELSE "rejected"
  /\ logged' = logged \cup ValidateLog(schema_ok)
  /\ UNCHANGED <<message, result, prev>>

Compute ==
  /\ pc = "validated"
  /\ LET r == compute_meanreversion_signal(validated.some)
     IN /\ result' = r.value
        /\ error' = r.raised
        /\ pc' = IF r.raised = "none" THEN "enriched" ELSE "failed"
  /\ logged' = logged \cup ComputeLog(validated.some)
  /\ UNCHANGED <<message, verdict, validated, prev>>

Next ==
  \/ \E schema_ok \in BOOLEAN : Validate(schema_ok)
  \/ Compute

Spec == Init /\ [][Next]_vars

(***************************************************************************)
(* The pipeline on one message after another: the calls share no state,    *)
(* prev only remembers the last message and what became of it.             *)
(***************************************************************************)
PairFull ==
  [symbol : {"AAPL", "MSFT"},
   price : {PyInt(100), PyFloat(104)},
   moving_average : {PyInt(100), PyInt(0)},
   volume : {PyInt(1000)}]

PairKeys == {"symbol", "price", "moving_average", "volume"}

PairMessages == {Restrict(d, keys) : d \in PairFull, keys \in SUBSET PairKeys}

InitPair ==
  /\ \E m \in PairMessages : Fresh(m)
  /\ prev = None

Receive(m) ==
  /\ pc \in {"rejected", "enriched", "failed"}
  /\ prev' = Some([message |-> message, result |-> result])
  /\ message' = m
  /\ verdict' = "pending"
  /\ pc' = "received"
  /\ validated' = None
  /\ result' = None
  /\ error' = "none"
  /\ logged' = {}

NextPair ==
  \/ \E schema_ok \in BOOLEAN : Validate(schema_ok)
  \/ Compute
  \/ \E m \in PairMessages : Receive(m)

SpecPair == InitPair /\ [][NextPair]_vars

(***************************************************************************)
(* The properties.  They are stated over the inputs in exact integer       *)
(* arithmetic: the deviation of a message is Delta(m) / InMA(m).           *)
(***************************************************************************)
ComputedKeys == {"mean_reversion_deviation", "mean_reversion_signal"}

Signals == {"REVERT_UP", "REVERT_DOWN", "NEUTRAL"}

\* The price and the moving average a message resolves to.
InPrice(m) == IF "price" \in DOMAIN m THEN m["price"].v ELSE 100

InMA(m) == IF "moving_average" \in DOMAIN m THEN m["moving_average"].v ELSE 100

Delta(m) == InPrice(m) - InMA(m)

\* The class of the exact deviation d / ma against -0.03 and 0.03.
ExactSignal(d, ma) ==
  IF 100 * d * Sgn(ma) < -3 * Abs(ma) THEN "REVERT_UP"
  ELSE IF 100 * d * Sgn(ma) > 3 * Abs(ma) THEN "REVERT_DOWN"
  ELSE "NEUTRAL"

\* k / 10^4 is within 0.00005 of d / ma.
Nearest(d, ma, k) == 2 * Abs(10000 * d - k * ma) <= Abs(ma)

\* d / ma is halfway between two multiples of 0.0001.
Halfway(d, ma) == 2 * ((10000 * Abs(d)) % Abs(ma)) = Abs(ma)

RECURSIVE GCD(_, _)
GCD(a, b) == IF b = 0 THEN a ELSE GCD(b, a % b)

RECURSIVE IsPowerOfTwo(_)
IsPowerOfTwo(n) == n = 1 \/ (n > 1 /\ n % 2 = 0 /\ IsPowerOfTwo(n \div 2))

\* d / ma is a binary fraction, so the double quotient is d / ma itself.
Representable(d, ma) == IsPowerOfTwo(Abs(ma) \div GCD(Abs(d), Abs(ma)))

OutSignal == result.some["mean_reversion_signal"]

OutE4 == result.some["mean_reversion_deviation"].e4

\* C1: for a positive moving average the signal is one of the three labels,
\* REVERT_UP exactly when the deviation is below -0.03, REVERT_DOWN exactly
\* when it is above 0.03 and NEUTRAL otherwise, the two boundaries included
\* in NEUTRAL.
C1_SignalClassification ==
  (pc = "enriched" /\ InMA(message) > 0) =>
    LET d == Delta(message)
        ma == InMA(message)
    IN /\ OutSignal \in Signals
       /\ (OutSignal = "REVERT_UP") <=> (100 * d < -3 * ma)
       /\ (OutSignal = "REVERT_DOWN") <=> (100 * d > 3 * ma)
       /\ (OutSignal = "NEUTRAL") <=> (-3 * ma <= 100 * d /\ 100 * d <= 3 * ma)

C1_Witness ==
  /\ pc = "enriched"
  /\ InPrice(message) = 103
  /\ InMA(message) = 100
  /\ OutSignal = "NEUTRAL"

\* C2: a message the schema collaborator rejects ends in ValueError: nothing
\* is returned by the validator and no enriched output exists for it.
C2_RejectedYieldsNothing ==
  verdict = "not satisfied" =>
    /\ pc = "rejected"
    /\ error = "ValueError"
    /\ validated = None
    /\ result = None

C2_Witness ==
  /\ verdict = "not satisfied"
  /\ pc = "rejected"
  /\ <<"error", "Invalid message schema: %s">> \in logged

\* C3: a message the schema collaborator accepts is returned by the
\* validator with the same keys and the same value under every key.
C3_AcceptedReturnedUnchanged ==
  verdict = "satisfied" =>
    /\ validated # None
    /\ DOMAIN validated.some = DOMAIN message
    /\ \A k \in DOMAIN message : validated.some[k] = message[k]

C3_Witness ==
  /\ verdict = "satisfied"
  /\ pc = "validated"
  /\ "symbol" \notin DOMAIN message
  /\ "volume" \in DOMAIN message
  /\ "price" \in DOMAIN message
  /\ message["price"].t = "int"

\* C4: the output keeps every input key other than the two computed keys
\* with the input's value, and has no key besides the input's keys and the
\* two computed keys.
C4_FieldsPreserved ==
  pc = "enriched" =>
    /\ \A k \in (DOMAIN message) \ ComputedKeys :
         k \in DOMAIN result.some /\ result.some[k] = message[k]
    /\ DOMAIN result.some \subseteq (DOMAIN message) \cup ComputedKeys

C4_Witness ==
  /\ pc = "enriched"
  /\ "volume" \in DOMAIN message
  /\ "mean_reversion_signal" \in DOMAIN message
  /\ "price" \in DOMAIN message
  /\ message["price"].t = "int"
  /\ "symbol" \notin DOMAIN message

\* C5: the computation fails with a division by zero and returns nothing
\* when the moving average resolves to zero, and returns an enriched message
\* for every other moving average.
C5_FailsExactlyOnZero ==
  /\ pc = "failed" =>
       InMA(message) = 0 /\ error = "ZeroDivisionError" /\ result = None
  /\ pc = "enriched" =>
       InMA(message) # 0 /\ error = "none" /\ result # None
       /\ ComputedKeys \subseteq DOMAIN result.some

C5_Witness ==
  /\ pc = "failed"
  /\ "price" \in DOMAIN message
  /\ InMA(message) = 0

\* C6: a missing price is read as 100.0, a missing moving_average as 100.0
\* and a missing symbol as "UNKNOWN"; with both numbers missing the
\* deviation is 0 and the signal NEUTRAL; a defaulted key is not added to
\* the output.
C6_Defaults ==
  LET noPrice == "price" \notin DOMAIN message
      noMA == "moving_average" \notin DOMAIN message
      noSymbol == "symbol" \notin DOMAIN message
  IN /\ (pc \in {"enriched", "failed"} /\ noSymbol) =>
          <<"info", "Computing mean reversion signal for %s", "UNKNOWN">>
            \in logged
     /\ pc = "enriched" =>
          /\ (noPrice /\ noMA) => (OutE4 = 0 /\ OutSignal = "NEUTRAL")
          /\ (noPrice /\ ~noMA) =>
               LET ma == message["moving_average"].v
               IN /\ Nearest(100 - ma, ma, OutE4)
                  /\ OutSignal = ExactSignal(100 - ma, ma)
          /\ (noMA /\ ~noPrice) =>
               LET p == message["price"].v
               IN /\ Nearest(p - 100, 100, OutE4)
                  /\ OutSignal = ExactSignal(p - 100, 100)
          /\ noPrice => "price" \notin DOMAIN result.some
          /\ noMA => "moving_average" \notin DOMAIN result.some
          /\ noSymbol => "symbol" \notin DOMAIN result.some

C6_Witness ==
  /\ pc = "enriched"
  /\ DOMAIN message \cap {"price", "moving_average", "symbol"} = {}
  /\ OutE4 = 0
  /\ OutSignal = "NEUTRAL"

\* C7: two messages that resolve to the same price and the same moving
\* average get the same mean_reversion_deviation and the same
\* mean_reversion_signal, whatever their other fields and whatever was
\* processed before.
C7_DependsOnlyOnPriceAndAverage ==
  (/\ pc = "enriched"
   /\ prev # None
   /\ prev.some.result # None
   /\ InPrice(prev.some.message) = InPrice(message)
   /\ InMA(prev.some.message) = InMA(message)) =>
    \A k \in ComputedKeys : prev.some.result.some[k] = result.some[k]

C7_Witness ==
  /\ pc = "enriched"
  /\ prev # None
  /\ prev.some.result # None
  /\ InPrice(prev.some.message) = InPrice(message)
  /\ InMA(prev.some.message) = InMA(message)
  /\ "symbol" \in DOMAIN prev.some.message
  /\ "symbol" \notin DOMAIN message
  /\ "price" \in DOMAIN prev.some.message
  /\ "price" \notin DOMAIN message

\* C8: a mean_reversion_deviation or mean_reversion_signal key of the input
\* holds the newly computed value in the output, not the input's value.
C8_ComputedFieldsWin ==
  pc = "enriched" =>
    /\ "mean_reversion_deviation" \in DOMAIN message =>
         Nearest(Delta(message), InMA(message), OutE4)
    /\ "mean_reversion_signal" \in DOMAIN message =>
         OutSignal = ExactSignal(Delta(message), InMA(message))

C8_Witness ==
  /\ pc = "enriched"
  /\ "mean_reversion_deviation" \in DOMAIN message
  /\ "mean_reversion_signal" \in DOMAIN message
  /\ message["mean_reversion_signal"] = "REVERT_UP"
  /\ OutSignal = "NEUTRAL"
  /\ OutE4 # message["mean_reversion_deviation"].e4

\* C9 as claimed: the emitted deviation is within 0.00005 of the exact
\* deviation, and an exact deviation halfway between two multiples of 0.0001
\* goes to the even one.
C9_HalfwayGoesToEven ==
  pc = "enriched" =>
    /\ Nearest(Delta(message), InMA(message), OutE4)
    /\ Halfway(Delta(message), InMA(message)) => OutE4 % 2 = 0

\* C9 as amended: the emitted deviation is within 0.00005 of the exact
\* deviation, and an exact deviation halfway between two multiples of 0.0001
\* goes to the even one when it is a binary fraction, that is when the
\* double quotient is the exact deviation.
C9_RoundsTheDouble ==
  pc = "enriched" =>
    /\ Nearest(Delta(message), InMA(message), OutE4)
    /\ (/\ Halfway(Delta(message), InMA(message))
        /\ Representable(Delta(message), InMA(message))) => OutE4 % 2 = 0

C9_Witness ==
  /\ pc = "enriched"
  /\ Halfway(Delta(message), InMA(message))
  /\ Representable(Delta(message), InMA(message))
  /\ InMA(message) = 32
  /\ OutE4 = 312

\* C10: REVERT_DOWN comes with an emitted deviation of at least 0.03,
\* REVERT_UP with one of at most -0.03 and NEUTRAL with one between -0.03
\* and 0.03; an emitted 0.03 occurs with REVERT_DOWN as well as NEUTRAL.
C10_SignalBoundsEmittedDeviation ==
  pc = "enriched" =>
    /\ OutSignal = "REVERT_DOWN" => OutE4 >= 300
    /\ OutSignal = "REVERT_UP" => OutE4 <= -300
    /\ OutSignal = "NEUTRAL" => (-300 <= OutE4 /\ OutE4 <= 300)

C10_Witness ==
  /\ pc = "enriched"
  /\ OutE4 = 300
  /\ OutSignal = "REVERT_DOWN"

====
